---- MODULE Spec2Model ----
(***************************************************************************)
(* Download archives of gallery_dl/archive.py: the deduplication ledger    *)
(* with its four classes (DownloadArchive, DownloadArchiveMemory,          *)
(* DownloadArchivePostgresql, DownloadArchivePostgresqlMemory), the entry  *)
(* point connect() with its fallback, and sync_from_sqlite().              *)
(*                                                                         *)
(* A table is a bag of rows (key -> number of rows holding it), so that    *)
(* "one row per key" is a property of the insert statements and not of the *)
(* representation.  Every call into a database driver either succeeds or   *)
(* raises; which one is an input of the action (a BOOLEAN drawn with \E).  *)
(* connection.rollback() and the sqlite3 context manager are taken to do   *)
(* what their documentation says (undo the open transaction).              *)
(***************************************************************************)
EXTENDS Integers, FiniteSets, Sequences, Bags, TLC

\* ---------------------------------------------------------------- bounds
MaxKey == 2          \* ledger keys are 1..MaxKey
MaxItem == 2         \* item descriptors (kwdict identities) are 1..MaxItem
MaxInst == 2         \* ledger instances (one per process) are 1..MaxInst
MinPending == 50     \* SpecBulk: the smallest pending set holds 1..MinPending
MaxPending == 150    \* SpecBulk: the largest pending set holds 1..MaxPending

\* ------------------------------------------------------ program constants
BulkThreshold == 100 \* len(self.keys) < 100 : row by row, else executemany

Keys == 1..MaxKey
Items == 1..MaxItem
Inst == 1..MaxInst

\* A location is its scheme prefix and the rest of the string.
PgUri == [scheme |-> "postgresql://", rest |-> "host/db"]
PgUriShort == [scheme |-> "postgres://", rest |-> "host/db"]
FallbackPath == [scheme |-> "", rest |-> "archive-fallback.sqlite3"]
Paths == {PgUri, PgUriShort, FallbackPath}
Modes == {"normal", "memory"}

Embedded == {"DownloadArchive", "DownloadArchiveMemory"}
Remote == {"DownloadArchivePostgresql", "DownloadArchivePostgresqlMemory"}
Buffered == {"DownloadArchiveMemory", "DownloadArchivePostgresqlMemory"}
Classes == Embedded \cup Remote
NoClass == "none"

\* A kwdict: the item it describes and its cache field (_cache_key), which
\* is absent/None ({}) or holds one key ({k}).
Kwdicts == [id : Items, cache : {{}} \cup {{k} : k \in Keys}]
NoKw == [id |-> 0, cache |-> {}]

VARIABLES
    pg,      \* the networked table: bag of rows
    fb,      \* the local sqlite file (the fallback location): [st, rows]
    cls,     \* cls[n]: class of ledger instance n, or NoClass
    keys,    \* keys[n]: self.keys of a buffered instance
    last,    \* the last call: what was called, with what, and what came back
    trail,   \* history: the add that the latest calls follow, and how far
    given,   \* history: given[n], keys a buffered add of this run was given
    acked,   \* history: keys whose recording went through, per store
    tbl      \* the table names of the last connect that was given one

vars == <<pg, fb, cls, keys, last, trail, given, acked, tbl>>

\* ------------------------------------------------------------- the stores
NoFile == [st |-> "nofile", rows |-> EmptyBag]
NoTable == [st |-> "notable", rows |-> EmptyBag]
Table(rows) == [st |-> "table", rows |-> rows]

Rows(t) == BagToSet(t)

\* path.startswith(("postgres://", "postgresql://"))
IsPgUri(path) == path.scheme \in {"postgres://", "postgresql://"}

\* ------------------------------------------------------------------ keys
\* The injected key formatter: formatter.parse(prefix + format).format_map.
keygen(kw) == ((kw.id - 1) % MaxKey) + 1

\* add: key = kwdict.get(self._cache_key) or self.keygen(kwdict)
AddKey(kw) == IF kw.cache # {} THEN CHOOSE k \in kw.cache : TRUE ELSE keygen(kw)

\* check: key = kwdict[self._cache_key] = self.keygen(kwdict)
CheckKey(kw) == keygen(kw)
CheckKw(kw) == [kw EXCEPT !.cache = {keygen(kw)}]

\* ------------------------------------------------------------ statements
\* Faulty variant of StmtInsertSqlite: a plain insert into a table without
\* the primary key, which stores a second row for a key it already holds.
StmtInsertSqlite_Plain(t, k) == t (+) SetToBag({k})

\* "INSERT OR IGNORE INTO t (entry) VALUES (?)" on entry TEXT PRIMARY KEY
StmtInsertSqlite(t, k) == IF BagIn(k, t) THEN t ELSE t (+) SetToBag({k})

\* "INSERT INTO t (entry) VALUES (%s) ON CONFLICT DO NOTHING"
StmtInsertPg(t, k) == IF BagIn(k, t) THEN t ELSE t (+) SetToBag({k})

\* "SELECT 1 FROM t WHERE entry=? LIMIT 1"; fetchone() is a row or None
StmtSelectSqlite(t, k) == IF BagIn(k, t) THEN "(1,)" ELSE "None"

\* "SELECT true FROM t WHERE entry=%s LIMIT 1"
StmtSelectPg(t, k) == IF BagIn(k, t) THEN "(True,)" ELSE "None"

\* Python truth of what check returns
Truthy(ret) == ret \in {"(1,)", "(True,)", "True"}

MinKey(ks) == CHOOSE x \in ks : \A y \in ks : x <= y
MaxOfKeys(ks) == CHOOSE x \in ks : \A y \in ks : y <= x

\* cursor.execute(stmt, (key,)) with the insert statement of either store
Execute(stmt, t, k) ==
    IF stmt = "sqlite" THEN StmtInsertSqlite(t, k) ELSE StmtInsertPg(t, k)

\* One execution of the statement stmt per key of ks within lo..hi.  A
\* Python set is iterated in no given order; here the keys are taken in
\* ascending order, in two halves (the table l left by the lower half is
\* what the upper half starts from) to keep the evaluation shallow.
RECURSIVE ExecIn(_, _, _, _, _)
ExecIn(stmt, t, ks, lo, hi) ==
    IF lo > hi THEN t
    ELSE IF lo = hi
    THEN IF lo \in ks THEN Execute(stmt, t, lo) ELSE t
    ELSE LET mid == (lo + hi) \div 2
         IN  CHOOSE r \in {ExecIn(stmt, l, ks, mid + 1, hi) :
                              l \in {ExecIn(stmt, t, ks, lo, mid)}} : TRUE

\* for key in self.keys: cursor.execute(stmt, (key,))
ExecEachSqlite(t, ks) ==
    IF ks = {} THEN t
    ELSE ExecIn("sqlite", t, ks, MinKey(ks), MaxOfKeys(ks))

\* Faulty variant of ExecManySqlite: the bulk statement is a plain INSERT
\* into a table without the primary key, so a key the table already holds
\* gets a second row.
ExecManySqlite_Plain(t, ks) == t (+) SetToBag(ks)

\* cursor.executemany(stmt, ((key,) for key in self.keys))
ExecManySqlite(t, ks) ==
    IF ks = {} THEN t
    ELSE ExecIn("sqlite", t, ks, MinKey(ks), MaxOfKeys(ks))

\* self.cursor.executemany(self._stmt_insert, ...) on the networked store
ExecManyPg(t, ks) ==
    IF ks = {} THEN t
    ELSE ExecIn("pg", t, ks, MinKey(ks), MaxOfKeys(ks))

\* ------------------------------------------------------------ operations
\* What a call leaves behind: the two stores, self.keys, the kwdict as the
\* call left it, what it returned, whether it raised, whether it queried
\* the physical store, and (sync_from_sqlite) the count it returned.
Out(pgT, file, ks, kw, ret, exc, q, synced) ==
    [pg |-> pgT, fb |-> file, keys |-> ks, kw |-> kw, ret |-> ret,
     exc |-> exc, q |-> q, synced |-> synced]

\* DownloadArchive.add
AddEmbedded(pgT, file, ks, kw, ok) ==
    IF ok
    THEN Out(pgT, Table(StmtInsertSqlite(file.rows, AddKey(kw))), ks, kw,
             "None", FALSE, FALSE, -1)
    ELSE Out(pgT, file, ks, kw, "raise", TRUE, FALSE, -1)

\* DownloadArchive.check
CheckEmbedded(pgT, file, ks, kw, ok) ==
    IF ok
    THEN Out(pgT, file, ks, CheckKw(kw),
             StmtSelectSqlite(file.rows, CheckKey(kw)), FALSE, TRUE, -1)
    ELSE Out(pgT, file, ks, CheckKw(kw), "raise", TRUE, TRUE, -1)

\* Faulty variant of AddMemory: the key is also inserted into the sqlite
\* table at once, as DownloadArchive.add does.
AddMemory_WritesThrough(pgT, file, ks, kw, ok) ==
    Out(pgT, Table(StmtInsertSqlite(file.rows, AddKey(kw))),
        ks \cup {AddKey(kw)}, kw, "None", FALSE, FALSE, -1)

\* DownloadArchiveMemory.add, DownloadArchivePostgresqlMemory.add
AddMemory(pgT, file, ks, kw, ok) ==
    Out(pgT, file, ks \cup {AddKey(kw)}, kw, "None", FALSE, FALSE, -1)

\* Faulty variant of CheckMemory: a key found in the table is remembered in
\* self.keys, so a lookup changes the pending set.
CheckMemory_Remembers(pgT, file, ks, kw, ok) ==
    IF CheckKey(kw) \in ks
    THEN Out(pgT, file, ks, CheckKw(kw), "True", FALSE, FALSE, -1)
    ELSE IF ok /\ BagIn(CheckKey(kw), file.rows)
    THEN Out(pgT, file, ks \cup {CheckKey(kw)}, CheckKw(kw), "(1,)",
             FALSE, TRUE, -1)
    ELSE CheckEmbedded(pgT, file, ks, kw, ok)

\* DownloadArchiveMemory.check
CheckMemory(pgT, file, ks, kw, ok) ==
    IF CheckKey(kw) \in ks
    THEN Out(pgT, file, ks, CheckKw(kw), "True", FALSE, FALSE, -1)
    ELSE CheckEmbedded(pgT, file, ks, kw, ok)

\* Faulty variant of FinalizeMemory: the transaction is never committed, so
\* the inserts of finalize are lost.
FinalizeMemory_NoCommit(pgT, file, ks, ok, bOk, part) ==
    IF ks = {}
    THEN Out(pgT, file, ks, NoKw, "None", FALSE, FALSE, -1)
    ELSE IF ok
    THEN Out(pgT, file, ks, NoKw, "None", FALSE, TRUE, -1)
    ELSE Out(pgT, file, ks, NoKw, "raise", TRUE, TRUE, -1)

\* DownloadArchiveMemory.finalize.  bOk: cursor.execute("BEGIN") works; when
\* it raises OperationalError the code passes on, and the connection, whose
\* isolation_level is None, commits every insert by itself.  ok: every
\* insert works; when one raises, part are the keys inserted before it, the
\* exception leaves the "with self.connection" block, which rolls back the
\* transaction that BEGIN opened (nothing, if BEGIN failed), and reaches the
\* caller.
FinalizeMemory(pgT, file, ks, ok, bOk, part) ==
    IF ks = {}
    THEN Out(pgT, file, ks, NoKw, "None", FALSE, FALSE, -1)
    ELSE IF ok
    THEN Out(pgT,
             Table(IF Cardinality(ks) < BulkThreshold
                   THEN ExecEachSqlite(file.rows, ks)
                   ELSE ExecManySqlite(file.rows, ks)),
             ks, NoKw, "None", FALSE, TRUE, -1)
    ELSE IF bOk
    THEN Out(pgT, file, ks, NoKw, "raise", TRUE, TRUE, -1)
    ELSE Out(pgT,
             Table(IF Cardinality(ks) < BulkThreshold
                   THEN ExecEachSqlite(file.rows, part)
                   ELSE ExecManySqlite(file.rows, part)),
             ks, NoKw, "raise", TRUE, TRUE, -1)

\* Faulty variant of AddPg: the insert is executed but never committed, so
\* it is lost with the connection.
AddPg_NoCommit(pgT, file, ks, kw, ok) ==
    Out(pgT, file, ks, kw, "None", FALSE, FALSE, -1)

\* Faulty variant of AddPg: no try/except around execute, a store failure
\* reaches the caller.
AddPg_NoCatch(pgT, file, ks, kw, ok) ==
    IF ok
    THEN Out(StmtInsertPg(pgT, AddKey(kw)), file, ks, kw,
             "None", FALSE, FALSE, -1)
    ELSE Out(pgT, file, ks, kw, "raise", TRUE, FALSE, -1)

\* DownloadArchivePostgresql.add: execute + commit, or log + rollback
AddPg(pgT, file, ks, kw, ok) ==
    IF ok
    THEN Out(StmtInsertPg(pgT, AddKey(kw)), file, ks, kw,
             "None", FALSE, FALSE, -1)
    ELSE Out(pgT, file, ks, kw, "None", FALSE, FALSE, -1)

\* DownloadArchivePostgresql.check: fetchone(), or log + rollback + False
CheckPg(pgT, file, ks, kw, ok) ==
    IF ok
    THEN Out(pgT, file, ks, CheckKw(kw),
             StmtSelectPg(pgT, CheckKey(kw)), FALSE, TRUE, -1)
    ELSE Out(pgT, file, ks, CheckKw(kw), "False", FALSE, TRUE, -1)

\* DownloadArchivePostgresqlMemory.check
CheckPgMemory(pgT, file, ks, kw, ok) ==
    IF CheckKey(kw) \in ks
    THEN Out(pgT, file, ks, CheckKw(kw), "True", FALSE, FALSE, -1)
    ELSE CheckPg(pgT, file, ks, kw, ok)

\* DownloadArchivePostgresqlMemory.finalize: executemany + commit, or
\* log + rollback
FinalizePgMemory(pgT, file, ks, ok) ==
    IF ks = {}
    THEN Out(pgT, file, ks, NoKw, "None", FALSE, FALSE, -1)
    ELSE IF ok
    THEN Out(ExecManyPg(pgT, ks), file, ks, NoKw, "None", FALSE, TRUE, -1)
    ELSE Out(pgT, file, ks, NoKw, "None", FALSE, TRUE, -1)

\* DownloadArchive.finalize, DownloadArchivePostgresql.finalize: pass
FinalizePass(pgT, file, ks, ok) ==
    Out(pgT, file, ks, NoKw, "None", FALSE, FALSE, -1)

\* method resolution: which add / check / finalize an instance of c runs
AddOf(c, pgT, file, ks, kw, ok) ==
    CASE c = "DownloadArchive" -> AddEmbedded(pgT, file, ks, kw, ok)
      [] c = "DownloadArchiveMemory" -> AddMemory(pgT, file, ks, kw, ok)
      [] c = "DownloadArchivePostgresql" -> AddPg(pgT, file, ks, kw, ok)
      [] c = "DownloadArchivePostgresqlMemory" ->
             AddMemory(pgT, file, ks, kw, ok)

CheckOf(c, pgT, file, ks, kw, ok) ==
    CASE c = "DownloadArchive" -> CheckEmbedded(pgT, file, ks, kw, ok)
      [] c = "DownloadArchiveMemory" -> CheckMemory(pgT, file, ks, kw, ok)
      [] c = "DownloadArchivePostgresql" -> CheckPg(pgT, file, ks, kw, ok)
      [] c = "DownloadArchivePostgresqlMemory" ->
             CheckPgMemory(pgT, file, ks, kw, ok)

FinalizeOf(c, pgT, file, ks, ok, bOk, part) ==
    CASE c = "DownloadArchive" -> FinalizePass(pgT, file, ks, ok)
      [] c = "DownloadArchiveMemory" ->
             FinalizeMemory(pgT, file, ks, ok, bOk, part)
      [] c = "DownloadArchivePostgresql" -> FinalizePass(pgT, file, ks, ok)
      [] c = "DownloadArchivePostgresqlMemory" ->
             FinalizePgMemory(pgT, file, ks, ok)

\* Faulty variant of SyncFromSqlite: the file is removed whenever
\* delete_sqlite is set, also when the bulk insert was rolled back.
SyncFromSqlite_RemovesAlways(pgT, file, ks, delete, rdOk, blkOk, rmOk) ==
    LET opened == IF file.st = "nofile" THEN NoTable ELSE file
        rows == opened.rows
        left == IF delete /\ rmOk THEN NoFile ELSE opened
    IN  IF opened.st # "table" \/ ~rdOk
        THEN Out(pgT, opened, ks, NoKw, "raise", TRUE, TRUE, -1)
        ELSE IF Rows(rows) = {}
        THEN Out(pgT, opened, ks, NoKw, "0", FALSE, TRUE, 0)
        ELSE IF ~blkOk
        THEN Out(pgT, left, ks, NoKw, "raise", TRUE, TRUE, -1)
        ELSE Out(ExecManyPg(pgT, Rows(rows)), left,
                 ks, NoKw, "synced", FALSE, TRUE, BagCardinality(rows))

\* Faulty variant of SyncFromSqlite: no try/except around os.remove, so a
\* failure to remove the file reaches the caller.
SyncFromSqlite_RemoveRaises(pgT, file, ks, delete, rdOk, blkOk, rmOk) ==
    LET opened == IF file.st = "nofile" THEN NoTable ELSE file
        rows == opened.rows
    IN  IF opened.st # "table" \/ ~rdOk
        THEN Out(pgT, opened, ks, NoKw, "raise", TRUE, TRUE, -1)
        ELSE IF Rows(rows) = {}
        THEN Out(pgT, opened, ks, NoKw, "0", FALSE, TRUE, 0)
        ELSE IF ~blkOk
        THEN Out(pgT, opened, ks, NoKw, "raise", TRUE, TRUE, -1)
        ELSE IF delete /\ ~rmOk
        THEN Out(ExecManyPg(pgT, Rows(rows)), opened, ks, NoKw,
                 "raise", TRUE, TRUE, -1)
        ELSE Out(ExecManyPg(pgT, Rows(rows)),
                 IF delete THEN NoFile ELSE opened,
                 ks, NoKw, "synced", FALSE, TRUE, BagCardinality(rows))

\* Faulty variant of SyncFromSqlite: a failure of the bulk insert is rolled
\* back and logged but not raised again; the call returns 0.
SyncFromSqlite_Swallows(pgT, file, ks, delete, rdOk, blkOk, rmOk) ==
    LET opened == IF file.st = "nofile" THEN NoTable ELSE file
        rows == opened.rows
    IN  IF opened.st # "table" \/ ~rdOk
        THEN Out(pgT, opened, ks, NoKw, "raise", TRUE, TRUE, -1)
        ELSE IF Rows(rows) = {} \/ ~blkOk
        THEN Out(pgT, opened, ks, NoKw, "0", FALSE, TRUE, 0)
        ELSE Out(ExecManyPg(pgT, Rows(rows)),
                 IF delete /\ rmOk THEN NoFile ELSE opened,
                 ks, NoKw, "synced", FALSE, TRUE, BagCardinality(rows))

\* DownloadArchivePostgresql.sync_from_sqlite(sqlite_path, table, delete_sqlite)
\* rdOk: the SELECT on the sqlite file works; blkOk: executemany + commit on
\* the networked store work; rmOk: os.remove works.  sqlite3.connect creates
\* a missing file, which then holds no table.
SyncFromSqlite(pgT, file, ks, delete, rdOk, blkOk, rmOk) ==
    LET opened == IF file.st = "nofile" THEN NoTable ELSE file
        rows == opened.rows
    IN  IF opened.st # "table" \/ ~rdOk
        THEN Out(pgT, opened, ks, NoKw, "raise", TRUE, TRUE, -1)
        ELSE IF Rows(rows) = {}
        THEN Out(pgT, opened, ks, NoKw, "0", FALSE, TRUE, 0)
        ELSE IF ~blkOk
        THEN Out(pgT, opened, ks, NoKw, "raise", TRUE, TRUE, -1)
        ELSE Out(ExecManyPg(pgT, Rows(rows)),
                 IF delete /\ rmOk THEN NoFile ELSE opened,
                 ks, NoKw, "synced", FALSE, TRUE, BagCardinality(rows))

\* psycopg.connect(uri): a conninfo that is no URI of the networked store
\* (the sqlite file name) is rejected; a URI connects when the store answers
PsycopgConnects(uri, pgOk) == IsPgUri(uri) /\ pgOk

\* cls(path, keygen, table, pragma, cache_key): the constructors.
\* What connect returns: the class of the ledger, or that it raised.
Made(c, exc, pgT, file) == [cls |-> c, exc |-> exc, pg |-> pgT, fb |-> file]

Construct(c, path, pgT, file, pgOk, sqOk) ==
    IF c \in Remote
    THEN IF PsycopgConnects(path, pgOk)
         THEN Made(c, FALSE, pgT, file)      \* CREATE TABLE IF NOT EXISTS
         ELSE Made(NoClass, TRUE, pgT, file)
    ELSE IF sqOk
         THEN Made(c, FALSE, pgT, Table(file.rows))
         ELSE Made(NoClass, TRUE, pgT, file)

\* Faulty variant of ConnectResult: no try/except around the startup
\* reconciliation, so its failure reaches the except branch of the remote
\* construction and connect goes on with the fallback path.
ConnectResult_SyncEscapes(path, mode, pgT, file, pgOk, sqOk, rdOk, blkOk) ==
    IF IsPgUri(path)
    THEN LET c == IF mode = "memory"
                  THEN "DownloadArchivePostgresqlMemory"
                  ELSE "DownloadArchivePostgresql"
             made == Construct(c, path, pgT, file, pgOk, sqOk)
             s == SyncFromSqlite(pgT, file, {}, FALSE, rdOk, blkOk, TRUE)
         IN  IF ~made.exc /\ file.st = "nofile"
             THEN made
             ELSE IF ~made.exc /\ ~s.exc
             THEN Made(c, FALSE, s.pg, s.fb)
             ELSE Construct(c, FallbackPath, pgT, file, pgOk, sqOk)
    ELSE LET c == IF mode = "memory"
                  THEN "DownloadArchiveMemory"
                  ELSE "DownloadArchive"
         IN  Construct(c, path, pgT, file, pgOk, sqOk)

\* connect(path, prefix, format, table=None, mode, ...)
ConnectResult(path, mode, pgT, file, pgOk, sqOk, rdOk, blkOk) ==
    IF IsPgUri(path)
    THEN LET c == IF mode = "memory"
                  THEN "DownloadArchivePostgresqlMemory"
                  ELSE "DownloadArchivePostgresql"
             made == Construct(c, path, pgT, file, pgOk, sqOk)
         IN  IF ~made.exc
             THEN IF file.st # "nofile"              \* os.path.exists
                  THEN LET s == SyncFromSqlite(pgT, file, {}, FALSE,
                                               rdOk, blkOk, TRUE)
                       IN  Made(c, FALSE, s.pg, s.fb)
                  ELSE made
             \* except: path = "archive-fallback.sqlite3"; cls is unchanged
             ELSE Construct(c, FallbackPath, pgT, file, pgOk, sqOk)
    ELSE LET c == IF mode = "memory"
                  THEN "DownloadArchiveMemory"
                  ELSE "DownloadArchive"
         IN  Construct(c, path, pgT, file, pgOk, sqOk)

\* ----------------------------------------------------------- table names
\* The table argument of connect: None, a plain name, or a template with a
\* replacement field; the kwdict argument of connect: None or a dict.
NoneTable == [kind |-> "none", lit |-> "", field |-> ""]
PlainTable == [kind |-> "name", lit |-> "dl", field |-> ""]
TemplateTable == [kind |-> "name", lit |-> "dl_", field |-> "{category}"]
TableArgs == {NoneTable, PlainTable, TemplateTable}
NotCalled == [kind |-> "notcalled", lit |-> "", field |-> ""]

NoKwArg == [kind |-> "none", category |-> ""]
KwArgs == {NoKwArg} \cup {[kind |-> "dict", category |-> c] : c \in {"a", "b"}}

\* formatter.parse(table).format_map(kwdict)
FormatTable(table, kwdict) ==
    IF table.field = "{category}"
    THEN [table EXCEPT !.field = kwdict.category]
    ELSE table

\* if kwdict is not None and table: table = formatter.parse(table)...
ExpandTable(table, kwdict) ==
    IF kwdict.kind # "none" /\ table.kind # "none"
    THEN FormatTable(table, kwdict)
    ELSE table

\* The table names connect hands on: ctor, to the constructor whose object
\* it returns (or that raised last); sync, to sync_from_sqlite.  The remote
\* constructor and the reconciliation are called before the template is
\* expanded; the constructor of the last line is called after.
ConnectTables(path, table, kwdict, file, pgOk) ==
    IF IsPgUri(path) /\ PsycopgConnects(path, pgOk)
    THEN [table |-> table, kwdict |-> kwdict, ctor |-> table,
          sync |-> IF file.st # "nofile" THEN table ELSE NotCalled]
    ELSE [table |-> table, kwdict |-> kwdict,
          ctor |-> ExpandTable(table, kwdict), sync |-> NotCalled]

NoTables == [table |-> NoneTable, kwdict |-> NoKwArg, ctor |-> NotCalled,
             sync |-> NotCalled]

\* ---------------------------------------------------------------- state
\* last: the call (op, inst, kw), what it gave back (kwOut, ret, exc, synced),
\* whether it queried the physical store (q) and, for add, whether the key
\* it was given was already recorded where this add records it (dup); for
\* connect and sync_from_sqlite also their arguments (uri: the path is a
\* URI of the networked store; mode; delete_sqlite) and the driver call
\* that raised (arg).
NoArg == [uri |-> FALSE, mode |-> "normal", delete |-> FALSE,
          fault |-> "none"]

Call(op, n, kw, o) ==
    [op |-> op, inst |-> n, kw |-> kw, kwOut |-> o.kw, ret |-> o.ret,
     exc |-> o.exc, q |-> o.q, synced |-> o.synced, dup |-> FALSE,
     arg |-> NoArg]

NoCall == [op |-> "none", inst |-> 0, kw |-> NoKw, kwOut |-> NoKw,
           ret |-> "None", exc |-> FALSE, q |-> FALSE, synced |-> -1,
           dup |-> FALSE, arg |-> NoArg]

StoreOf(c) == IF c \in Remote THEN "pg" ELSE "fb"

\* the keys instance n would find recorded where its add records them
Recorded(n) ==
    IF cls[n] \in Buffered THEN keys[n]
    ELSE IF cls[n] \in Remote THEN Rows(pg) ELSE Rows(fb.rows)

\* trail follows one add through the calls that come right after it:
\*   "add"   add(kw) of instance inst has returned, without a store failure
\*   "fin"   ... and then finalize() of that instance, without a store failure
\*   "exit"  ... and then the process ended (fin: whether it had finalized)
\*   "conn"  ... and then connect gave instance inst a ledger on the same store
\*   "chk"   ... and then instance inst checked kw, without a store failure
\*           (from: the stage before)
\*   "chk2"  ... and then instance inst checked the same item once more
\* Any other call ends the trail.
NoTrail == [st |-> "none", inst |-> 0, kw |-> NoKw, store |-> "none",
            buf |-> FALSE, fin |-> FALSE, from |-> "none"]

\* Nothing has run yet: no networked rows, no fallback file, no ledger.
Init ==
    /\ pg = EmptyBag
    /\ fb = NoFile
    /\ cls = [n \in Inst |-> NoClass]
    /\ keys = [n \in Inst |-> {}]
    /\ last = NoCall
    /\ trail = NoTrail
    /\ given = [n \in Inst |-> {}]
    /\ acked = [pg |-> {}, fb |-> {}]
    /\ tbl = NoTables

\* the driver calls connect makes: psycopg.connect and the reconciliation
\* for a URI, sqlite3 for a local path
ConnectFaults(path) ==
    IF IsPgUri(path) THEN {"none", "pg", "read", "bulk"}
    ELSE {"none", "sqlite"}
SyncFaults == {"none", "read", "bulk", "remove"}

\* archive.connect(...) in a process that holds no ledger yet; fault names
\* the driver call that raises, if any.  ConnectLedger is what connect does
\* to the stores and the ledger, whatever table name it is given.
ConnectLedger(n, path, mode, fault) ==
    /\ cls[n] = NoClass
    /\ \E r \in {ConnectResult(path, mode, pg, fb, fault # "pg", fault # "sqlite",
                                fault # "read", fault # "bulk")} :
       LET synced == /\ r.cls \in Remote
                     /\ fb.st = "table"
                     /\ fault \notin {"read", "bulk"}
       IN  /\ pg' = r.pg
           /\ fb' = r.fb
           /\ cls' = [cls EXCEPT ![n] = r.cls]
           /\ keys' = [keys EXCEPT ![n] = {}]
           /\ last' = [NoCall EXCEPT !.op = "connect", !.inst = n,
                                     !.exc = r.exc,
                                     !.arg = [NoArg EXCEPT !.uri = IsPgUri(path),
                                                           !.mode = mode,
                                                           !.fault = fault],
                                     !.ret = IF r.exc THEN "raise" ELSE "ledger"]
           /\ trail' = IF trail.st = "exit" /\ ~r.exc
                          /\ StoreOf(r.cls) = trail.store
                       THEN [trail EXCEPT !.st = "conn", !.inst = n]
                       ELSE NoTrail
           /\ given' = [given EXCEPT ![n] = {}]
           /\ acked' = IF synced
                       THEN [acked EXCEPT !.pg = @ \cup Rows(fb.rows)]
                       ELSE acked

\* connect(path, prefix, format, mode=mode): table and kwdict are None
Connect(n, path, mode, fault) ==
    /\ ConnectLedger(n, path, mode, fault)
    /\ UNCHANGED tbl

\* connect(path, prefix, format, table=table, mode=mode, kwdict=kwdict)
ConnectTable(n, path, mode, table, kwdict, fault) ==
    /\ ConnectLedger(n, path, mode, fault)
    /\ tbl' = ConnectTables(path, table, kwdict, fb, fault # "pg")

\* archive.add(kwdict); ok: the driver calls of this call work
Add(n, kw, ok) ==
    /\ cls[n] \in Classes
    /\ \E o \in {AddOf(cls[n], pg, fb, keys[n], kw, ok)} :
       LET s == StoreOf(cls[n])
       IN  /\ pg' = o.pg
           /\ fb' = o.fb
           /\ keys' = [keys EXCEPT ![n] = o.keys]
           /\ last' = [Call("add", n, kw, o) EXCEPT
                           !.dup = AddKey(kw) \in Recorded(n)]
           /\ trail' = IF ~o.exc /\ (ok \/ cls[n] \in Buffered)
                       THEN [NoTrail EXCEPT !.st = "add", !.inst = n,
                                            !.kw = kw, !.store = s,
                                            !.buf = (cls[n] \in Buffered)]
                       ELSE NoTrail
           /\ given' = IF cls[n] \in Buffered
                       THEN [given EXCEPT ![n] = @ \cup {AddKey(kw)}]
                       ELSE given
           /\ acked' = IF cls[n] \notin Buffered /\ ok
                       THEN [acked EXCEPT ![s] = @ \cup {AddKey(kw)}]
                       ELSE acked
    /\ UNCHANGED <<cls, tbl>>

\* archive.check(kwdict)
Check(n, kw, ok) ==
    /\ cls[n] \in Classes
    /\ \E o \in {CheckOf(cls[n], pg, fb, keys[n], kw, ok)} :
           /\ pg' = o.pg
           /\ fb' = o.fb
           /\ keys' = [keys EXCEPT ![n] = o.keys]
           /\ last' = Call("check", n, kw, o)
           /\ trail' = IF trail.inst = n /\ (ok \/ ~o.q)
                          /\ trail.st \in {"add", "fin", "conn"}
                          /\ trail.kw = kw
                       THEN [trail EXCEPT !.st = "chk", !.from = trail.st]
                       ELSE IF trail.inst = n /\ (ok \/ ~o.q)
                          /\ trail.st = "chk"
                          /\ kw \in {trail.kw, CheckKw(trail.kw)}
                       THEN [NoTrail EXCEPT !.st = "chk2"]
                       ELSE NoTrail
    /\ UNCHANGED <<cls, given, acked, tbl>>

\* the driver calls finalize makes: BEGIN and the inserts on the embedded
\* buffered class, executemany + commit on the remote buffered class, none
\* on the others; the fault names the ones that raise
FinalizeFaults == {"none", "begin", "insert", "begin+insert"}

FinalizeFaultsOf(c) ==
    IF c = "DownloadArchiveMemory" THEN FinalizeFaults
    ELSE IF c = "DownloadArchivePostgresqlMemory" THEN {"none", "insert"}
    ELSE {"none"}

\* the keys that may have been inserted when an insert raises: any part of
\* the pending set but all of it (a set is iterated in no given order)
FinalizeParts(ks, fault) ==
    IF fault = "begin+insert" THEN (SUBSET ks) \ {ks} ELSE {{}}

\* archive.finalize()
Finalize(n, fault) ==
    /\ cls[n] \in Classes
    /\ fault \in FinalizeFaultsOf(cls[n])
    /\ \E part \in FinalizeParts(keys[n], fault) :
       \E o \in {FinalizeOf(cls[n], pg, fb, keys[n],
                             fault \notin {"insert", "begin+insert"},
                             fault \notin {"begin", "begin+insert"}, part)} :
       LET s == StoreOf(cls[n])
           ok == fault \notin {"insert", "begin+insert"}
       IN  /\ pg' = o.pg
           /\ fb' = o.fb
           /\ keys' = [keys EXCEPT ![n] = o.keys]
           /\ last' = [Call("finalize", n, NoKw, o) EXCEPT
                           !.arg = [NoArg EXCEPT !.fault = fault]]
           /\ trail' = IF trail.st = "add" /\ trail.inst = n /\ ok /\ ~o.exc
                       THEN [trail EXCEPT !.st = "fin", !.fin = TRUE]
                       ELSE NoTrail
           /\ acked' = IF cls[n] \in Buffered /\ ok
                       THEN [acked EXCEPT ![s] = @ \cup given[n]]
                       ELSE IF cls[n] = "DownloadArchiveMemory"
                               /\ fault = "begin+insert"
                       THEN [acked EXCEPT ![s] = @ \cup part]
                       ELSE acked
    /\ UNCHANGED <<cls, given, tbl>>

\* pg.sync_from_sqlite(fallback_path, table, delete_sqlite) called on a remote
\* ledger.  The removal of the file is modelled while no embedded ledger
\* holds the file open.
Sync(n, delete, fault) ==
    /\ cls[n] \in Remote
    /\ delete => \A m \in Inst : cls[m] \notin Embedded
    /\ \E o \in {SyncFromSqlite(pg, fb, keys[n], delete, fault # "read",
                                 fault # "bulk", fault # "remove")} :
           /\ pg' = o.pg
           /\ fb' = o.fb
           /\ keys' = [keys EXCEPT ![n] = o.keys]
           /\ last' = [Call("sync", n, NoKw, o) EXCEPT
                           !.arg = [NoArg EXCEPT !.delete = delete,
                                                 !.fault = fault]]
           /\ acked' = IF fb.st = "table" /\ fault \notin {"read", "bulk"}
                       THEN [pg |-> acked.pg \cup Rows(fb.rows),
                             fb |-> IF delete /\ fault # "remove"
                                       /\ Rows(fb.rows) # {}
                                    THEN {} ELSE acked.fb]
                       ELSE acked
    /\ trail' = NoTrail
    /\ UNCHANGED <<cls, given, tbl>>

\* The process of instance n ends (it exits or crashes): what it held in
\* memory is gone, the stores stay.
Exit(n) ==
    /\ cls[n] \in Classes
    /\ cls' = [cls EXCEPT ![n] = NoClass]
    /\ keys' = [keys EXCEPT ![n] = {}]
    /\ last' = [NoCall EXCEPT !.op = "exit", !.inst = n]
    /\ trail' = IF trail.st \in {"add", "fin"} /\ trail.inst = n
                THEN [trail EXCEPT !.st = "exit"]
                ELSE NoTrail
    /\ given' = [given EXCEPT ![n] = {}]
    /\ UNCHANGED <<pg, fb, acked, tbl>>

Next ==
    \E n \in Inst :
        \/ \E path \in Paths, mode \in Modes :
               \E fault \in ConnectFaults(path) : Connect(n, path, mode, fault)
        \/ \E kw \in Kwdicts, ok \in BOOLEAN : Add(n, kw, ok)
        \/ \E kw \in Kwdicts, ok \in BOOLEAN : Check(n, kw, ok)
        \/ \E fault \in FinalizeFaults : Finalize(n, fault)
        \/ \E delete \in BOOLEAN, fault \in SyncFaults : Sync(n, delete, fault)
        \/ Exit(n)

Spec == Init /\ [][Next]_vars

\* ------------------------------------------- the two write strategies
\* SpecBulk: DownloadArchiveMemory.finalize on pending sets around the
\* threshold of 100 keys.  The run starts where a buffered ledger
\* (instance 1) has been given the keys 1..n over a table that holds some
\* keys already; finalize is then called, with and without a failing BEGIN
\* or insert.
PendingSets ==
    {1..n : n \in {MinPending, MaxPending}
                    \cup ((BulkThreshold - 2)..(BulkThreshold + 2))}

StoredSets ==
    {{}, 1..MinPending, {MaxPending + 1},
     (BulkThreshold - 1)..(BulkThreshold + 1), 1..(MaxPending + 1)}

InitBulk ==
    /\ pg = EmptyBag
    /\ \E S \in StoredSets :
          /\ fb = Table(SetToBag(S))
          /\ acked = [pg |-> {}, fb |-> S]
    /\ \E P \in PendingSets :
          /\ keys = [n \in Inst |-> IF n = 1 THEN P ELSE {}]
          /\ given = [n \in Inst |-> IF n = 1 THEN P ELSE {}]
    /\ cls = [n \in Inst |-> IF n = 1 THEN "DownloadArchiveMemory"
                                       ELSE NoClass]
    /\ last = NoCall
    /\ trail = NoTrail
    /\ tbl = NoTables

NextBulk == \E fault \in {"none", "begin", "insert"} : Finalize(1, fault)

SpecBulk == InitBulk /\ [][NextBulk]_vars

\* ------------------------------------------------ connect and the table
\* SpecTable: connect called with a table name and a kwdict, by processes
\* that hold no ledger, over a fallback file that exists or not; a process
\* ends before it connects again.
InitTable ==
    /\ pg = EmptyBag
    /\ \E S \in {{}, {1}} :
          /\ fb \in {NoFile, Table(SetToBag(S))}
          /\ acked = [pg |-> {}, fb |-> Rows(fb.rows)]
    /\ cls = [n \in Inst |-> NoClass]
    /\ keys = [n \in Inst |-> {}]
    /\ last = NoCall
    /\ trail = NoTrail
    /\ given = [n \in Inst |-> {}]
    /\ tbl = NoTables

NextTable ==
    \E n \in Inst :
        \/ \E path \in Paths, mode \in Modes, table \in TableArgs,
              kwdict \in KwArgs :
               \E fault \in ConnectFaults(path) :
                   ConnectTable(n, path, mode, table, kwdict, fault)
        \/ Exit(n)

SpecTable == InitTable /\ [][NextTable]_vars

\* ---------------------------------------------------------------- claims
EmbeddedFor(mode) ==
    IF mode = "memory" THEN "DownloadArchiveMemory" ELSE "DownloadArchive"

\* The step is a call op of instance n (every call leaves its name, its
\* instance and its kwdict in last).
Called(op, n) == last'.op = op /\ last'.inst = n
CalledWith(op, n, kw) == last'.op = op /\ last'.inst = n /\ last'.kw = kw

\* the check recorded in last met no store failure
CheckAnswered == last.op = "check" /\ ~last.exc /\ last.ret # "False"

\* C2: connect with a networked-store URI whose remote construction raises,
\* in either mode, does not raise and returns an embedded ledger on the
\* fallback file (buffered iff mode is memory), which creates the file.
C2_FallbackToEmbedded ==
    [][\A n \in Inst, path \in Paths, mode \in Modes :
          (IsPgUri(path) /\ Called("connect", n)
              /\ Connect(n, path, mode, "pg"))
          => /\ ~last'.exc
             /\ cls'[n] = EmbeddedFor(mode)
             /\ fb'.st = "table"]_vars

\* C3: on every variant, add(i) then finalize() then check(i), with no store
\* failure, returns found, and check looks up the key that add recorded,
\* whatever the cache field of i held before add.
C3_AddFinalizeCheck ==
    (trail.st = "chk" /\ trail.from = "fin")
    => /\ Truthy(last.ret)
       /\ CheckKey(trail.kw) = AddKey(trail.kw)

\* C6: on a buffered ledger a check that meets no store failure returns found
\* exactly when the key of the item is pending or stored, and a check(i)
\* right after add(i) returns found from the pending set without a query.
C6_BufferedCheck ==
    /\ (CheckAnswered /\ cls[last.inst] \in Buffered)
       => (Truthy(last.ret)
           <=> CheckKey(last.kw) \in keys[last.inst]
                  \cup (IF cls[last.inst] \in Remote
                        THEN Rows(pg) ELSE Rows(fb.rows)))
    /\ (trail.st = "chk" /\ trail.from = "add" /\ trail.buf)
       => (last.ret = "True" /\ ~last.q)

\* C7: a sync_from_sqlite that returns leaves the networked store with its
\* keys N and the fallback keys F, and returns |F minus N|, the number of
\* keys it inserted.
C7_SyncCount ==
    [][\A n \in Inst, delete \in BOOLEAN, fault \in SyncFaults :
          (Called("sync", n) /\ ~last'.exc /\ Sync(n, delete, fault))
          => /\ Rows(pg') = Rows(pg) \cup Rows(fb.rows)
             /\ last'.synced = Cardinality(Rows(fb.rows) \ Rows(pg))]_vars

\* C8 as stated: every step (add, check, finalize, reconciliation, failing or
\* not) keeps every key that was in a physical store, the networked table
\* and the sqlite file alike.
C8_StoresNeverShrink ==
    [][/\ Rows(pg) \subseteq Rows(pg')
       /\ Rows(fb.rows) \subseteq Rows(fb'.rows)]_vars

\* C8 amended: every step keeps every key of the networked table, and every
\* key of the sqlite file unless the step is a sync_from_sqlite asked to
\* delete the file, which has then put all its keys into the networked
\* table.
C8_NeverShrinks ==
    [][/\ Rows(pg) \subseteq Rows(pg')
       /\ \/ Rows(fb.rows) \subseteq Rows(fb'.rows)
          \/ \E n \in Inst, fault \in SyncFaults :
                /\ Called("sync", n)
                /\ Sync(n, TRUE, fault)
                /\ Rows(fb.rows) \subseteq Rows(pg')]_vars

\* a reconciliation failed and was rolled back next to keys of both stores
C8_Witness ==
    /\ last.op = "sync" /\ last.exc
    /\ Rows(pg) # {}
    /\ ~(Rows(fb.rows) \subseteq Rows(pg))

C5_AddIdempotent ==
    /\ [](\A k \in Keys : CopiesIn(k, pg) <= 1 /\ CopiesIn(k, fb.rows) <= 1)
    /\ [][\A n \in Inst, kw \in Kwdicts :
             (CalledWith("add", n, kw) /\ AddKey(kw) \in Recorded(n)
                 /\ Add(n, kw, TRUE))
             => (~last'.exc /\ pg' = pg /\ fb' = fb /\ keys' = keys)]_vars
    /\ [][\A n \in Inst :
             (Called("finalize", n) /\ cls[n] \in Buffered
                 /\ last'.arg.fault \in {"none", "begin"})
             => /\ ~last'.exc
                /\ IF cls[n] \in Remote
                   THEN Rows(pg') = Rows(pg) \cup keys[n] /\ fb' = fb
                   ELSE Rows(fb'.rows) = Rows(fb.rows) \cup keys[n]
                        /\ pg' = pg]_vars

\* an add of a key already recorded has returned, and its table holds the
\* key once
C5_Witness ==
    /\ last.op = "add" /\ last.dup /\ ~last.exc
    /\ cls[last.inst] = "DownloadArchive"
    /\ CopiesIn(AddKey(last.kw), fb.rows) = 1

\* C4: a check that meets no store failure, on a ledger with nothing pending
\* (a fresh instance), returns found exactly for the keys recorded before on
\* the same store: by an add of a non-buffered ledger, by the finalize of a
\* buffered ledger for the keys its adds were given, or by reconciliation.
C4_RoundTrip ==
    (CheckAnswered /\ keys[last.inst] = {})
    => (Truthy(last.ret)
        <=> CheckKey(last.kw) \in acked[StoreOf(cls[last.inst])])

\* a buffered ledger added a key, finalized and ended; a fresh ledger on the
\* same store then found the key
C4_Witness ==
    /\ trail.st = "chk" /\ trail.from = "conn"
    /\ trail.buf /\ trail.fin
    /\ Truthy(last.ret)

C11_BulkFailureRollsBack ==
    [][(last'.op = "sync" /\ last'.arg.fault = "bulk"
           /\ fb.st = "table" /\ Rows(fb.rows) # {})
       => (last'.exc /\ pg' = pg /\ fb' = fb)]_vars

\* a sync_from_sqlite asked to delete the file met a bulk-insert failure,
\* was raised again, and the file still holds keys the networked table lacks
C11_Witness ==
    /\ last.op = "sync" /\ last.exc
    /\ last.arg.delete /\ last.arg.fault = "bulk"
    /\ fb.st = "table"
    /\ ~(Rows(fb.rows) \subseteq Rows(pg))

RemoteFor(mode) ==
    IF mode = "memory" THEN "DownloadArchivePostgresqlMemory"
    ELSE "DownloadArchivePostgresql"

\* C12: connect with a URI whose remote ledger is constructed, while the
\* fallback file exists, returns that remote ledger and does not raise,
\* whether the reconciliation works (the keys of the file are then in the
\* networked table) or fails at the read or at the bulk insert (the
\* networked table is then as it was); the file is left as it was.
C12_ReconciliationNeverAborts ==
    [][(last'.op = "connect" /\ last'.arg.uri
           /\ last'.arg.fault \in {"none", "read", "bulk"}
           /\ fb.st # "nofile")
       => /\ ~last'.exc
          /\ cls'[last'.inst] = RemoteFor(last'.arg.mode)
          /\ fb' = fb
          /\ (last'.arg.fault = "none" /\ fb.st = "table")
             => Rows(pg') = Rows(pg) \cup Rows(fb.rows)
          /\ (last'.arg.fault # "none" /\ Rows(fb.rows) # {}) => pg' = pg]_vars

\* connect has just returned a remote ledger although the reconciliation
\* failed: the fallback file holds keys that the networked table lacks
C12_Witness ==
    /\ last.op = "connect" /\ ~last.exc
    /\ cls[last.inst] \in Remote
    /\ fb.st = "table"
    /\ ~(Rows(fb.rows) \subseteq Rows(pg))

\* C13: a call raises only when it is a reconciliation (sync_from_sqlite
\* called by the pipeline) or a connect; no add, check or finalize of any
\* class raises.
C13_OnlyConstructionAndReplayRaise ==
    last.exc => last.op \in {"connect", "sync"}

\* C15: a finalize that returns on a buffered ledger leaves self.keys empty.
C15_FinalizeDiscardsPending ==
    [][(last'.op = "finalize" /\ ~last'.exc
           /\ cls[last'.inst] \in Buffered)
       => keys'[last'.inst] = {}]_vars

\* C16: on a buffered ledger an add changes self.keys by its key and nothing
\* else, a check changes neither store, and the end of the process changes
\* neither store: what was added and not finalized is in no store.
C16_BufferedAddFrame ==
    [][/\ (last'.op \in {"add", "check"} /\ cls[last'.inst] \in Buffered)
          => (pg' = pg /\ fb' = fb)
       /\ (last'.op = "add" /\ cls[last'.inst] \in Buffered)
          => keys' = [keys EXCEPT ![last'.inst] = @ \cup {AddKey(last'.kw)}]
       /\ last'.op = "exit" => (pg' = pg /\ fb' = fb)]_vars

\* a buffered ledger added a key and its process ended before finalize: the
\* key is in neither store
C16_Witness ==
    /\ trail.st = "exit" /\ trail.buf /\ ~trail.fin
    /\ AddKey(trail.kw) \notin Rows(pg) \cup Rows(fb.rows)

\* C17: the sqlite file disappears only in a sync_from_sqlite that was asked
\* to delete it, met no failure and has put the keys of the file into the
\* networked table; when only the removal fails the call does not raise,
\* returns the count and leaves the file; a sync_from_sqlite not asked to
\* delete leaves an existing file as it was; connect never removes the file
\* nor changes its keys.
C17_FileRemovedOnlyOnRequest ==
    [][/\ (fb.st # "nofile" /\ fb'.st = "nofile")
          => /\ last'.op = "sync" /\ last'.arg.delete
             /\ last'.arg.fault = "none" /\ ~last'.exc
             /\ Rows(fb.rows) # {}
             /\ Rows(fb.rows) \subseteq Rows(pg')
       /\ (last'.op = "sync" /\ last'.arg.delete
              /\ last'.arg.fault = "remove"
              /\ fb.st = "table" /\ Rows(fb.rows) # {})
          => /\ ~last'.exc
             /\ last'.synced = BagCardinality(fb.rows)
             /\ fb' = fb
             /\ Rows(fb.rows) \subseteq Rows(pg')
       /\ (last'.op = "sync" /\ ~last'.arg.delete /\ fb.st # "nofile")
          => fb' = fb
       /\ last'.op = "connect"
          => /\ fb'.rows = fb.rows
             /\ fb.st # "nofile" => fb'.st # "nofile"]_vars

\* a sync_from_sqlite asked to delete the file could not remove it: it
\* returned its count and the file is still there
C17_Witness ==
    /\ last.op = "sync" /\ last.arg.delete /\ last.arg.fault = "remove"
    /\ ~last.exc /\ last.synced > 0
    /\ fb.st = "table"

\* C18: a check of an item whose cache field holds a key leaves the field as
\* it is and looks that key up, the key add uses: when it meets no store
\* failure it returns found exactly when that key is pending or stored.
C18_CheckUsesCachedKey ==
    [][(last'.op = "check" /\ last'.kw.cache # {})
       => /\ last'.kwOut = last'.kw
          /\ (~last'.exc /\ last'.ret # "False")
             => (Truthy(last'.ret)
                 <=> AddKey(last'.kw) \in keys[last'.inst]
                        \cup (IF cls[last'.inst] \in Remote
                              THEN Rows(pg) ELSE Rows(fb.rows)))]_vars

\* C20: a finalize of a buffered ledger with pending keys either leaves all
\* of them in the table or leaves both stores as they were, and when it
\* raises it leaves both stores as they were.
C20_FinalizeAllOrNothing ==
    [][(last'.op = "finalize" /\ cls[last'.inst] \in Buffered
           /\ keys[last'.inst] # {})
       => /\ \/ pg' = pg /\ fb' = fb
             \/ IF cls[last'.inst] \in Remote
                THEN Rows(pg') = Rows(pg) \cup keys[last'.inst] /\ fb' = fb
                ELSE Rows(fb'.rows) = Rows(fb.rows) \cup keys[last'.inst]
                     /\ pg' = pg
          /\ last'.exc => (pg' = pg /\ fb' = fb)]_vars

\* C14: a finalize of the embedded buffered ledger whose inserts work leaves
\* the table with one row for each key it held and each pending key,
\* whether the pending set is below the threshold of 100 (row by row),
\* exactly 100 or above it (executemany).
C14_StrategiesAgree ==
    [][(last'.op = "finalize" /\ last'.arg.fault \in {"none", "begin"}
           /\ cls[last'.inst] = "DownloadArchiveMemory")
       => /\ ~last'.exc
          /\ fb' = Table(SetToBag(Rows(fb.rows) \cup keys[last'.inst]))]_vars

\* a finalize has written MaxPending keys, more than the threshold, over a
\* table that held some of them, and all are in the table
C14_Witness ==
    /\ last.op = "finalize" /\ ~last.exc
    /\ Cardinality(keys[last.inst]) = MaxPending
    /\ MaxPending >= BulkThreshold
    /\ keys[last.inst] \subseteq Rows(fb.rows)
    /\ Cardinality(Rows(fb.rows)) > MaxPending

\* C19: whenever connect is given a table name and a kwdict and returns a
\* ledger, the table name its constructor got is the expanded template,
\* and so is the table name the startup reconciliation got, if it ran.
C19_TableExpandedEverywhere ==
    (last.op = "connect" /\ ~last.exc
        /\ tbl.table.kind # "none" /\ tbl.kwdict.kind # "none")
    => /\ tbl.ctor = FormatTable(tbl.table, tbl.kwdict)
       /\ tbl.sync # NotCalled
          => tbl.sync = FormatTable(tbl.table, tbl.kwdict)
====
